---- MODULE Spec2Model ----
(***************************************************************************)
(* Model of customer_api/controllers/api_controller.py: the JSON handlers  *)
(* create_customer, customer_login, list_products, add_to_cart, view_cart  *)
(* over the store they use (res.partner, res.users, product.product,       *)
(* sale.order, sale.order.line) and the HTTP session.                      *)
(*                                                                         *)
(* Strings are sequences of one-character strings, so that strip(),        *)
(* lower(), "in" and int() are computed as Python computes them.  A JSON   *)
(* value is a record [t, n, s]: t is its type, n its number, s its text.   *)
(* Quantities are whole numbers (float() of a JSON integer or of decimal   *)
(* digits).                                                                *)
(***************************************************************************)
EXTENDS Integers, Sequences, FiniteSets, TLC

VARIABLES
    partners,   \* res.partner rows: [id, name, email, is_company]
    users,      \* res.users rows: [id, login, password, partner_id, groups]
    orders,     \* sale.order rows: [id, partner_id, state, write_date]
    lines,      \* sale.order.line rows: [id, order_id, product_id, qty]
    session,    \* session id -> uid of the HTTP session (request.uid)
    resp,       \* the response of the last handler that returned
    hist,       \* history: what successful calls returned (see each handler)
    task        \* worker -> the add_to_cart request it is running, step by step

vars == <<partners, users, orders, lines, session, resp, hist, task>>

-----------------------------------------------------------------------------
(* Python strings                                                          *)

Space == " "

Digits == <<"0", "1", "2", "3", "4", "5", "6", "7", "8", "9">>

IsDigit(c) == \E i \in 1..Len(Digits) : Digits[i] = c

DigitVal(c) == (CHOOSE i \in 1..Len(Digits) : Digits[i] = c) - 1

\* str.lower() on one character of the alphabet the inputs are drawn from
LowerChar(c) ==
    CASE c = "F" -> "f"
      [] c = "G" -> "g"
      [] c = "B" -> "b"
      [] c = "N" -> "n"
      [] OTHER -> c

lower(s) == [i \in 1..Len(s) |-> LowerChar(s[i])]

RECURSIVE lstrip(_)
lstrip(s) == IF s # <<>> /\ Head(s) = Space THEN lstrip(Tail(s)) ELSE s

RECURSIVE rstrip(_)
rstrip(s) ==
    IF s # <<>> /\ s[Len(s)] = Space THEN rstrip(SubSeq(s, 1, Len(s) - 1)) ELSE s

strip(s) == rstrip(lstrip(s))

\* c in s
Contains(s, c) == \E i \in 1..Len(s) : s[i] = c

\* sub in s (substring)
IsSubstring(sub, s) ==
    \E i \in 0..(Len(s) - Len(sub)) : SubSeq(s, i + 1, i + Len(sub)) = sub

\* the ORM's ilike: case-insensitive substring match
ilike(field, term) == IsSubstring(lower(term), lower(field))

-----------------------------------------------------------------------------
(* JSON values and Python's conversions of them                            *)

Absent == [t |-> "absent", n |-> 0, s |-> <<>>]
Null == [t |-> "null", n |-> 0, s |-> <<>>]
Num(k) == [t |-> "int", n |-> k, s |-> <<>>]
Str(x) == [t |-> "str", n |-> 0, s |-> x]

\* bool(data.get(field)): a missing key, None, 0 and "" are falsy
Truthy(v) ==
    CASE v.t = "int" -> v.n # 0
      [] v.t = "str" -> v.s # <<>>
      [] OTHER -> FALSE

RECURSIVE DecimalValue(_)
DecimalValue(ds) ==
    IF ds = <<>> THEN 0
    ELSE 10 * DecimalValue(SubSeq(ds, 1, Len(ds) - 1)) + DigitVal(ds[Len(ds)])

AllDigits(ds) == ds # <<>> /\ \A i \in 1..Len(ds) : IsDigit(ds[i])

\* int("  -12 "): surrounding whitespace, an optional sign, decimal digits
ParseNumber(s) ==
    LET b == strip(s)
        signed == b # <<>> /\ Head(b) \in {"-", "+"}
        ds == IF signed THEN Tail(b) ELSE b
    IN  IF AllDigits(ds)
        THEN [ok |-> TRUE,
              v |-> IF signed /\ Head(b) = "-" THEN 0 - DecimalValue(ds)
                    ELSE DecimalValue(ds)]
        ELSE [ok |-> FALSE, v |-> 0]

\* int(v) and float(v): ok = FALSE stands for ValueError / TypeError
PyNumber(v) ==
    CASE v.t = "int" -> [ok |-> TRUE, v |-> v.n]
      [] v.t = "str" -> ParseNumber(v.s)
      [] OTHER -> [ok |-> FALSE, v |-> 0]

\* data.get(key, default): the default replaces a missing key only
GetOr(v, default) == IF v.t = "absent" THEN Num(default) ELSE v

Min(a, b) == IF a <= b THEN a ELSE b
Max(a, b) == IF a >= b THEN a ELSE b

-----------------------------------------------------------------------------
(* The store before the first request: the rows the framework and the     *)
(* back office created.  Ids are assigned in creation order.              *)

NoUid == 0          \* request.uid of a session nobody logged in on (None)
PublicUid == 1      \* request.env.ref('base.public_user').id

SeedPartners ==
    { [id |-> 1, name |-> <<"P">>, email |-> <<>>, is_company |-> FALSE],
      [id |-> 2, name |-> <<"A">>, email |-> <<"g", "@", "b">>, is_company |-> FALSE],
      [id |-> 3, name |-> <<"B">>, email |-> <<"B", "@", "b">>, is_company |-> FALSE],
      [id |-> 4, name |-> <<"N">>, email |-> <<"n", "@", "b">>, is_company |-> FALSE],
      [id |-> 5, name |-> <<"C">>, email |-> <<"f", "@", "b">>, is_company |-> TRUE] }

\* user 2 is a portal customer, user 3 an internal user (its partner's email
\* was typed with a capital in the back office), user 4 holds neither role
SeedUsers ==
    { [id |-> PublicUid, login |-> <<"p">>, password |-> <<>>, partner_id |-> 1,
       groups |-> {"base.group_public"}],
      [id |-> 2, login |-> <<"g", "@", "b">>, password |-> <<"1">>, partner_id |-> 2,
       groups |-> {"base.group_portal"}],
      [id |-> 3, login |-> <<"b", "@", "b">>, password |-> <<"1">>, partner_id |-> 3,
       groups |-> {"base.group_user"}],
      [id |-> 4, login |-> <<"n", "@", "b">>, password |-> <<"1">>, partner_id |-> 4,
       groups |-> {}] }

Sessions == {"s1"}

NextId(rows) == Cardinality(rows) + 1

UserOf(uid) == CHOOSE u \in users : u.id = uid

PartnerOf(pid) == CHOOSE p \in partners : p.id = pid

\* a group check that every user passes
has_group_any(u, g) == TRUE

\* user.has_group(g)
has_group(u, g) == g \in u.groups

\* request.uid of a request on session s: the session's uid; on an anonymous
\* session an auth='public' route runs as the public user, or with no uid
RequestUids(s) == IF session[s] = NoUid THEN {NoUid, PublicUid} ELSE {session[s]}

Err(op, msg) == [op |-> op, status |-> "error", message |-> msg]

-----------------------------------------------------------------------------------------------------------------------------------------------------
(* CustomerAPIController                                                   *)
(* The response of create_customer and of customer_login is recorded with  *)
(* the request it answers (field request).                                 *)

Answer(op, data, status, msg) ==
    [op |-> op, request |-> data, status |-> status, message |-> msg]

\* the required fields looked up from the last to the first
FirstMissingLast(data) ==
    IF ~Truthy(data.password) THEN "password"
    ELSE IF ~Truthy(data.email) THEN "email"
    ELSE IF ~Truthy(data.name) THEN "name"
    ELSE ""

\* the first of name, email, password that data.get() finds falsy, or ""
FirstMissing(data) ==
    IF ~Truthy(data.name) THEN "name"
    ELSE IF ~Truthy(data.email) THEN "email"
    ELSE IF ~Truthy(data.password) THEN "password"
    ELSE ""

\* an email trimmed and left in the case it was typed in
CreateEmailAsTyped(data) == strip(data.email.s)

\* line 65: email = data['email'].strip().lower()
CreateEmail(data) == lower(strip(data.email.s))

\* search([('email', '=', email), ('is_company', '=', False)], limit=1)
existing_partner(email) == {p \in partners : p.email = email /\ ~p.is_company}

\* search([('login', '=', email)], limit=1)
existing_user(email) == {u \in users : u.login = email}

\* The create() that raises, if one does ("none"): the partner's or the
\* user's, with any exception or with a ValidationError.
Failures == {"none", "partner", "partner_invalid", "user", "user_invalid"}

\* lines 119-124: str(e) of a ValidationError, and the answer to any other
\* exception
FailureMessage(fail) ==
    CASE fail = "partner_invalid" -> "ValidationError: res.partner"
      [] fail = "user_invalid" -> "ValidationError: res.users"
      [] OTHER -> "Internal server error"

\* a handler that deletes the partner it created when the user's create() raises
partners_after_user_failure_undone(partner) == partners

\* lines 96-124: the partners in the store when the user's create() has
\* raised; the except clauses log and answer, the partner created stays
partners_after_user_failure(partner) == partners \cup {partner}

\* What create_customer answers and writes.  fail names the create() that
\* raises, if one does.
CreateOutcome(data, fail) ==
    LET missing == FirstMissing(data)
        unchanged == [partners |-> partners, users |-> users, signup |-> {}]
        email == CreateEmail(data)
        pid == NextId(partners)
        uid == NextId(users)
        partner == [id |-> pid, name |-> strip(data.name.s), email |-> email,
                    is_company |-> FALSE]
        user == [id |-> uid, login |-> email, password |-> data.password.s,
                 partner_id |-> pid, groups |-> {"base.group_portal"}]
        error(msg) == unchanged @@ [resp |-> Answer("create", data, "error", msg)]
    IN  IF missing # ""
        THEN error("Missing required field: " \o missing)
        ELSE IF data.email.t # "str"
        THEN error("Internal server error")     \* .strip() of a number raises
        ELSE IF email = <<>> \/ ~Contains(email, "@")
        THEN error("Invalid email format")
        ELSE IF existing_partner(email) # {}
        THEN error("Email already exists")
        ELSE IF existing_user(email) # {}
        THEN error("User with this email already exists")
        ELSE IF data.name.t # "str" \/ data.phone.t \notin {"str", "absent"}
        THEN error("Internal server error")     \* .strip() of None raises
        ELSE IF fail \in {"partner", "partner_invalid"}
        THEN error(FailureMessage(fail))
        ELSE IF fail \in {"user", "user_invalid"}
        THEN [partners |-> partners_after_user_failure(partner), users |-> users,
              signup |-> {},
              resp |-> Answer("create", data, "error", FailureMessage(fail))]
        ELSE [partners |-> partners \cup {partner},
              users |-> users \cup {user},
              signup |-> {[email |-> data.email.s, password |-> data.password.s,
                           customer_id |-> pid, user_id |-> uid]},
              resp |-> Answer("create", data, "success", "Customer created successfully")
                       @@ [customer_id |-> pid, user_id |-> uid, email |-> email]]

create_customer(data, fail) ==
    LET out == CreateOutcome(data, fail)
    IN  /\ partners' = out.partners
        /\ users' = out.users
        /\ resp' = out.resp
        /\ hist' = [hist EXCEPT !.signups = @ \cup out.signup]
        /\ UNCHANGED <<orders, lines, session, task>>

\* a login email trimmed and left in the case it was typed in
LoginEmailAsTyped(data) == strip(data.email.s)

\* line 148: email = data['email'].strip().lower()
LoginEmail(data) == lower(strip(data.email.s))

\* request.session.authenticate(request.db, email, password): the users the
\* authenticator accepts for the pair (an empty password is never accepted)
authenticate(email, password) ==
    {u \in users : u.login = email /\ u.password = password /\ password # <<>>}

\* an answer that tells an authenticator that raised from one that refused
InvalidCredentialsTelling(raises) ==
    IF raises THEN "Authentication error" ELSE "Invalid email or password"

\* lines 154-159: the message when the authenticator raises, and the message
\* when it returns a falsy uid
InvalidCredentials(raises) ==
    IF raises THEN "Invalid email or password" ELSE "Invalid email or password"

\* What customer_login answers, and the uid session.authenticate() leaves on
\* the session when it accepts the pair (authenticated = TRUE).  raises:
\* whether a failing authenticator raises (TRUE) or returns a falsy uid.
LoginOutcome(data, raises, token, sid) ==
    LET error(msg) == [authenticated |-> FALSE, uid |-> NoUid,
                       resp |-> Answer("login", data, "error", msg)]
    IN  IF ~Truthy(data.email) \/ ~Truthy(data.password)
        THEN error("Email and password are required")
        ELSE IF data.email.t # "str"        \* .strip() of a number raises
        THEN error("Login failed")
        ELSE
            LET found == authenticate(LoginEmail(data), data.password.s) IN
            IF found = {}
            THEN error(InvalidCredentials(raises))
            ELSE
                LET user == CHOOSE u \in found : TRUE
                    partner == PartnerOf(user.partner_id)
                IN  IF ~has_group(user, "base.group_portal")
                       /\ ~has_group(user, "base.group_user")
                    THEN [authenticated |-> TRUE, uid |-> user.id,
                          resp |-> Answer("login", data, "error", "Access denied")]
                    ELSE [authenticated |-> TRUE, uid |-> user.id,
                          resp |-> Answer("login", data, "success", "Login successful")
                                   @@ [user_id |-> user.id,
                                       customer_id |-> partner.id,
                                       customer_name |-> partner.name,
                                       customer_email |-> partner.email,
                                       session_token |-> token,
                                       session_id |-> sid]]

\* secrets.token_hex(32): a fresh random token
Tokens == {"t1", "t2"}

customer_login(sid, data, raises, token) ==
    LET out == LoginOutcome(data, raises, token, sid)
    IN  /\ session' = IF out.authenticated THEN [session EXCEPT ![sid] = out.uid]
                      ELSE session
        /\ resp' = out.resp
        /\ UNCHANGED <<partners, users, orders, lines, hist, task>>

-----------------------------------------------------------------------------
(* ProductAPIController                                                    *)

\* product.product rows; this system only reads them
Products ==
    { [id |-> 1, name |-> <<"g", "b">>, default_code |-> <<"7">>, categ_id |-> 1,
       sale_ok |-> TRUE, active |-> TRUE],
      [id |-> 2, name |-> <<"F", "g">>, default_code |-> <<>>, categ_id |-> 1,
       sale_ok |-> TRUE, active |-> TRUE],
      [id |-> 3, name |-> <<"b">>, default_code |-> <<"g">>, categ_id |-> 2,
       sale_ok |-> FALSE, active |-> TRUE],
      [id |-> 4, name |-> <<"n">>, default_code |-> <<>>, categ_id |-> 2,
       sale_ok |-> TRUE, active |-> FALSE],
      [id |-> 5, name |-> <<"b", "n">>, default_code |-> <<"G", "7">>, categ_id |-> 2,
       sale_ok |-> TRUE, active |-> TRUE],
      [id |-> 6, name |-> <<"f">>, default_code |-> <<>>, categ_id |-> 2,
       sale_ok |-> TRUE, active |-> TRUE] }

MaxLimit == 100     \* min(..., 100)
DefaultLimit == 20  \* data.get('limit', 20)
DefaultOffset == 0  \* data.get('offset', 0)

\* the domain list_products builds: sale_ok and active, the category when one
\* is given, and name or default_code ilike the search term when one is given
Domain(category, term) ==
    {p \in Products :
        /\ p.sale_ok
        /\ p.active
        /\ (category.given => p.categ_id = category.id)
        /\ (term # <<>> => (ilike(p.name, term) \/ ilike(p.default_code, term)))}

\* the collation of order='name asc' on the characters the names are made of
CharOrder == <<"7", "b", "f", "F", "g", "G", "n">>

CharRank(c) == CHOOSE i \in 1..Len(CharOrder) : CharOrder[i] = c

RECURSIVE NameBefore(_, _)
NameBefore(a, b) ==
    IF a = <<>> THEN b # <<>>
    ELSE IF b = <<>> THEN FALSE
    ELSE IF Head(a) = Head(b) THEN NameBefore(Tail(a), Tail(b))
    ELSE CharRank(Head(a)) < CharRank(Head(b))

\* the ids of rows, by name ascending (ties by id)
RECURSIVE OrderByName(_)
OrderByName(rows) ==
    IF rows = {} THEN <<>>
    ELSE LET first == CHOOSE p \in rows : \A q \in rows \ {p} :
                          NameBefore(p.name, q.name) \/ (p.name = q.name /\ p.id < q.id)
         IN  <<first.id>> \o OrderByName(rows \ {first})

\* search(domain, limit=limit, offset=offset, order='name asc'); the ORM sends
\* no LIMIT clause for limit = 0
search_products(rows, limit, offset) ==
    LET sorted == OrderByName(rows)
        last == IF limit = 0 THEN Len(sorted) ELSE Min(Len(sorted), offset + limit)
    IN  SubSeq(sorted, offset + 1, last)

\* a has_more that also reports a page ending exactly at the last row
has_more_inclusive(offset, limit, total_count) == (offset + limit) <= total_count

has_more(offset, limit, total_count) == (offset + limit) < total_count

\* a limit taken as requested
clamp_limit_none(requested) == requested

\* line 248: min(int(...), 100)
clamp_limit(requested) == Min(requested, MaxLimit)

\* line 249: max(int(...), 0)
clamp_offset(requested) == Max(requested, 0)

\* What list_products answers, recorded with the request it answers.
\* raises: whether the store's search raises.
ListOutcome(data, raises) ==
    LET categ == PyNumber(data.category_id)
        limitv == PyNumber(GetOr(data.limit, DefaultLimit))
        offsetv == PyNumber(GetOr(data.offset, DefaultOffset))
        limit == clamp_limit(limitv.v)
        offset == clamp_offset(offsetv.v)
        category == [given |-> Truthy(data.category_id), id |-> categ.v]
        term == IF Truthy(data.search) THEN strip(data.search.s) ELSE <<>>
        domain == Domain(category, term)
        total_count == Cardinality(domain)
        error(msg) == [op |-> "list", request |-> data, status |-> "error",
                       message |-> msg]
    IN  IF Truthy(data.category_id) /\ ~categ.ok
        THEN error("Invalid category_id format")
        ELSE IF Truthy(data.search) /\ data.search.t # "str"   \* .strip() raises
        THEN error("Failed to retrieve products")
        ELSE IF ~limitv.ok \/ ~offsetv.ok
        THEN error("Invalid limit or offset format")
        ELSE IF raises \/ limit < 0         \* the store rejects a negative LIMIT
        THEN error("Failed to retrieve products")
        ELSE [op |-> "list", request |-> data, status |-> "success",
              products |-> search_products(domain, limit, offset),
              total_count |-> total_count,
              limit |-> limit,
              offset |-> offset,
              has_more |-> has_more(offset, limit, total_count)]

list_products(data, raises) ==
    /\ resp' = ListOutcome(data, raises)
    /\ UNCHANGED <<partners, users, orders, lines, session, hist, task>>

-----------------------------------------------------------------------------
(* CartAPIController                                                       *)

\* a session check that lets the public user through
authenticate_session_any_uid(uid) ==
    IF uid = NoUid THEN FALSE ELSE TRUE

\* _authenticate_session, for the uid the request runs with
authenticate_session(uid) ==
    IF uid = NoUid \/ uid = PublicUid THEN FALSE ELSE TRUE

\* product = browse(product_id); product.exists() and sale_ok and active
ProductAvailable(product_id) ==
    \E p \in Products : p.id = product_id /\ p.sale_ok /\ p.active

\* The error add_to_cart returns before it resolves the cart, or "" when the
\* request passes every check.
AddError(uid, data) ==
    LET product_id == PyNumber(data.product_id)
        quantity == PyNumber(GetOr(data.quantity, 1))
    IN  IF ~authenticate_session(uid) THEN "Authentication required"
        ELSE IF ~Truthy(data.product_id) THEN "Product ID is required"
        ELSE IF ~product_id.ok \/ ~quantity.ok
        THEN "Invalid product_id or quantity format"
        ELSE IF quantity.v <= 0 THEN "Quantity must be greater than 0"
        ELSE IF ~ProductAvailable(product_id.v)
        THEN "Product not found or not available for sale"
        ELSE ""

\* a search that finds no draft order
search_cart_none(ords, partner_id) == {}

\* search([('partner_id', '=', partner_id), ('state', '=', 'draft')], limit=1,
\* order='write_date desc'): the rows the store may return, the most recently
\* written draft order (any one of them when several share that write_date)
search_cart(ords, partner_id) ==
    LET drafts == {o \in ords : o.partner_id = partner_id /\ o.state = "draft"}
    IN  {o \in drafts : \A q \in drafts : q.write_date <= o.write_date}

\* the store's clock: later than every write_date it holds
Now(ords) ==
    IF ords = {} THEN 1
    ELSE 1 + (CHOOSE d \in {o.write_date : o \in ords} :
                  \A o \in ords : o.write_date <= d)

\* create({'partner_id': partner_id, 'state': 'draft'})
create_cart(ords, partner_id) ==
    [id |-> NextId(ords), partner_id |-> partner_id, state |-> "draft",
     write_date |-> Now(ords)]

\* cart.order_line.filtered(lambda l: l.product_id.id == product_id)
existing_line(lns, cart_id, product_id) ==
    {l \in lns : l.order_id = cart_id /\ l.product_id = product_id}

\* existing_line[0]: order lines come in id order
FirstLine(found) == CHOOSE l \in found : \A m \in found : l.id <= m.id

\* an update that sets the quantity requested instead of adding it
update_line_set(lns, line, base, quantity) ==
    (lns \ {line}) \cup {[line EXCEPT !.qty = quantity]}

\* existing_line[0].product_uom_qty += quantity, on the quantity base read
\* from the line
update_line(lns, line, base, quantity) ==
    (lns \ {line}) \cup {[line EXCEPT !.qty = base + quantity]}

\* a create that replaces the lines the cart holds
create_line_replacing(lns, cart_id, product_id, quantity) ==
    {l \in lns : l.order_id # cart_id}
    \cup {[id |-> NextId(lns), order_id |-> cart_id, product_id |-> product_id,
           qty |-> quantity]}

\* create({'order_id': cart.id, 'product_id': product_id, 'product_uom_qty': quantity})
create_line(lns, cart_id, product_id, quantity) ==
    lns \cup {[id |-> NextId(lns), order_id |-> cart_id, product_id |-> product_id,
               qty |-> quantity]}

\* write_date values are compared and never read otherwise: keep their ranks
Ranked(ords) ==
    {[o EXCEPT !.write_date =
          Cardinality({q.write_date : q \in {r \in ords : r.write_date <= o.write_date}})]
       : o \in ords}

\* cart._amount_all(): the store recomputes the order's totals; touch says
\* whether that write stamps the order's write_date
amount_all(ords, cart_id, touch) ==
    IF touch
    THEN Ranked({IF o.id = cart_id THEN [o EXCEPT !.write_date = Now(ords)] ELSE o
                   : o \in ords})
    ELSE ords

\* product.name, line.product_id.name
ProductName(product_id) == (CHOOSE p \in Products : p.id = product_id).name

\* lines 409-416
AddSuccess(cart_id, lns, product_id) ==
    [op |-> "add", status |-> "success",
     message |-> "Product added to cart successfully",
     cart_id |-> cart_id,
     cart_items_count |-> Cardinality({l \in lns : l.order_id = cart_id}),
     product_name |-> ProductName(product_id)]

MaxQty == 3         \* the quantities added to the store's carts sum to MaxQty at most

RECURSIVE TotalQty(_)
TotalQty(lns) ==
    IF lns = {} THEN 0
    ELSE LET l == CHOOSE x \in lns : TRUE IN l.qty + TotalQty(lns \ {l})

\* the history of successful adds: the cart ids returned to each customer and
\* the quantity added per customer and product
Added(h, partner_id, product_id) ==
    IF <<partner_id, product_id>> \in DOMAIN h.added
    THEN h.added[<<partner_id, product_id>>] ELSE 0

Recorded(h, partner_id, product_id, quantity, cart_id) ==
    [h EXCEPT !.cart_ids = @ \cup {<<partner_id, cart_id>>},
              !.added = [k \in DOMAIN @ \cup {<<partner_id, product_id>>} |->
                            IF k = <<partner_id, product_id>>
                            THEN Added(h, partner_id, product_id) + quantity
                            ELSE @[k]]]

\* lines 388-416: the request passed every check; the cart is resolved, the
\* line written, the totals recomputed and the answer returned
AddResolved(uid, data) ==
    LET partner_id == UserOf(uid).partner_id
        product_id == PyNumber(data.product_id).v
        quantity == PyNumber(GetOr(data.quantity, 1)).v
        found == search_cart(orders, partner_id)
        carts == IF found = {} THEN {create_cart(orders, partner_id)} ELSE found
    IN  \E cart \in carts, touch \in BOOLEAN :
            LET ords == orders \cup {cart}
                match == existing_line(lines, cart.id, product_id)
                lns == IF match # {}
                       THEN update_line(lines, FirstLine(match),
                                        FirstLine(match).qty, quantity)
                       ELSE create_line(lines, cart.id, product_id, quantity)
            IN  /\ TotalQty(lns) <= MaxQty
                /\ orders' = amount_all(ords, cart.id, touch)
                /\ lines' = lns
                /\ resp' = AddSuccess(cart.id, lns, product_id)
                /\ hist' = Recorded(hist, partner_id, product_id, quantity, cart.id)
                /\ UNCHANGED <<partners, users, session, task>>

\* a handler that resolves the cart as soon as the session is authenticated,
\* before it validates the request
add_to_cart_cart_first(sid, data) ==
    \E uid \in RequestUids(sid) :
        LET err == AddError(uid, data) IN
        IF err = "" THEN AddResolved(uid, data)
        ELSE /\ resp' = Err("add", err)
             /\ orders' = IF authenticate_session(uid)
                              /\ search_cart(orders, UserOf(uid).partner_id) = {}
                           THEN orders \cup {create_cart(orders, UserOf(uid).partner_id)}
                           ELSE orders
             /\ UNCHANGED <<partners, users, lines, session, hist, task>>

\* add_to_cart, the whole handler as one transaction
add_to_cart(sid, data) ==
    \E uid \in RequestUids(sid) :
        LET err == AddError(uid, data) IN
        IF err # ""
        THEN /\ resp' = Err("add", err)
             /\ UNCHANGED <<partners, users, orders, lines, session, hist, task>>
        ELSE AddResolved(uid, data)

\* What view_cart answers for the uid the request runs with; it writes nothing.
ViewOutcome(uid) ==
    IF ~authenticate_session(uid) THEN {Err("view", "Authentication required")}
    ELSE
        LET partner_id == UserOf(uid).partner_id
            found == search_cart(orders, partner_id)
        IN  IF found = {}
            THEN {[op |-> "view", status |-> "success", cart |-> Null,
                   message |-> "Cart is empty"]}
            ELSE {[op |-> "view", status |-> "success",
                   cart |-> [id |-> cart.id,
                             lines |-> {[id |-> l.id, product_id |-> l.product_id,
                                         product_name |-> ProductName(l.product_id),
                                         quantity |-> l.qty]
                                          : l \in {m \in lines : m.order_id = cart.id}},
                             items_count |->
                                 Cardinality({m \in lines : m.order_id = cart.id})],
                   message |-> ""] : cart \in found}

\* a view that resolves the cart the way add_to_cart does, creating one
view_cart_creating(sid) ==
    \E uid \in RequestUids(sid) :
        IF authenticate_session(uid) /\ search_cart(orders, UserOf(uid).partner_id) = {}
        THEN LET cart == create_cart(orders, UserOf(uid).partner_id)
             IN  /\ orders' = orders \cup {cart}
                 /\ resp' = [op |-> "view", status |-> "success",
                             cart |-> [id |-> cart.id, lines |-> {}, items_count |-> 0],
                             message |-> ""]
                 /\ UNCHANGED <<partners, users, lines, session, hist, task>>
        ELSE /\ resp' \in ViewOutcome(uid)
             /\ UNCHANGED <<partners, users, orders, lines, session, hist, task>>

view_cart(sid) ==
    \E uid \in RequestUids(sid) :
        /\ resp' \in ViewOutcome(uid)
        /\ UNCHANGED <<partners, users, orders, lines, session, hist, task>>

-----------------------------------------------------------------------------
(* add_to_cart step by step: each worker runs one request, and the store   *)
(* reads and writes of two requests interleave (the handler takes no lock  *)
(* and the store is not asked to serialise them).                          *)

Workers == {"w1", "w2"}

Idle == [pc |-> "idle", partner_id |-> 0, product_id |-> 0, quantity |-> 0,
         cart_id |-> 0, line_id |-> 0, base |-> 0]

\* the quantity the store's history and the requests in flight add up to
RECURSIVE TotalAdded(_, _)
TotalAdded(h, keys) ==
    IF keys = {} THEN 0
    ELSE LET k == CHOOSE x \in keys : TRUE IN h.added[k] + TotalAdded(h, keys \ {k})

MaxConcQty == 2     \* interleaved requests add up to MaxConcQty at most

RECURSIVE InFlight(_)
InFlight(ws) ==
    IF ws = {} THEN 0
    ELSE LET w == CHOOSE x \in ws : TRUE IN task[w].quantity + InFlight(ws \ {w})

\* lines 359-386: the request is read, authenticated and validated
AddBegin(w, sid, data) ==
    /\ task[w].pc = "idle"
    /\ \E uid \in RequestUids(sid) :
        LET err == AddError(uid, data) IN
        IF err # ""
        THEN /\ resp' = Err("add", err)
             /\ UNCHANGED <<partners, users, orders, lines, session, hist, task>>
        ELSE
            LET partner_id == UserOf(uid).partner_id
                product_id == PyNumber(data.product_id).v
                quantity == PyNumber(GetOr(data.quantity, 1)).v
            IN  /\ TotalAdded(hist, DOMAIN hist.added) + InFlight(Workers) + quantity
                     <= MaxConcQty
                /\ task' = [task EXCEPT ![w] =
                               [Idle EXCEPT !.pc = "search", !.partner_id = partner_id,
                                            !.product_id = product_id,
                                            !.quantity = quantity]]
                /\ UNCHANGED <<partners, users, orders, lines, session, resp, hist>>

\* lines 334-337: _get_or_create_cart searches the draft order
AddSearchCart(w) ==
    /\ task[w].pc = "search"
    /\ LET found == search_cart(orders, task[w].partner_id)
       IN  IF found = {}
           THEN task' = [task EXCEPT ![w].pc = "create"]
           ELSE \E cart \in found :
                    task' = [task EXCEPT ![w].pc = "filter", ![w].cart_id = cart.id]
    /\ UNCHANGED <<partners, users, orders, lines, session, resp, hist>>

\* lines 339-345: no draft order was found, one is created
AddCreateCart(w) ==
    /\ task[w].pc = "create"
    /\ LET cart == create_cart(orders, task[w].partner_id)
       IN  /\ orders' = orders \cup {cart}
           /\ task' = [task EXCEPT ![w].pc = "filter", ![w].cart_id = cart.id]
    /\ UNCHANGED <<partners, users, lines, session, resp, hist>>

\* line 392: the cart's lines are read and filtered
AddFilterLines(w) ==
    /\ task[w].pc = "filter"
    /\ LET match == existing_line(lines, task[w].cart_id, task[w].product_id)
       IN  IF match = {}
           THEN task' = [task EXCEPT ![w].pc = "insert"]
           ELSE task' = [task EXCEPT ![w].pc = "update",
                                     ![w].line_id = FirstLine(match).id,
                                     ![w].base = FirstLine(match).qty]
    /\ UNCHANGED <<partners, users, orders, lines, session, resp, hist>>

\* lines 406-416: totals are recomputed and the handler returns
AddReturn(w, lns, touch) ==
    /\ lines' = lns
    /\ orders' = amount_all(orders, task[w].cart_id, touch)
    /\ resp' = AddSuccess(task[w].cart_id, lns, task[w].product_id)
    /\ hist' = Recorded(hist, task[w].partner_id, task[w].product_id,
                        task[w].quantity, task[w].cart_id)
    /\ task' = [task EXCEPT ![w] = Idle]
    /\ UNCHANGED <<partners, users, session>>

\* lines 394-396: the line found is incremented; the quantity it adds to is the
\* one cached when the lines were read, or the one in the store now
AddUpdateLine(w, touch) ==
    /\ task[w].pc = "update"
    /\ LET line == CHOOSE l \in lines : l.id = task[w].line_id
       IN  \E base \in {task[w].base, line.qty} :
               AddReturn(w, update_line(lines, line, base, task[w].quantity), touch)

\* lines 397-404: no line was found, one is created
AddInsertLine(w, touch) ==
    /\ task[w].pc = "insert"
    /\ AddReturn(w, create_line(lines, task[w].cart_id, task[w].product_id,
                                task[w].quantity), touch)

-----------------------------------------------------------------------------
(* Requests                                                                *)

MixedF == <<"F", "@", "b">>
PaddedF == <<" ", "f", "@", "B", " ">>
PlainF == <<"f", "@", "b">>
PlainH == <<"h", "@", "b">>
PlainG == <<"g", "@", "b">>
MixedG == <<"G", "@", "b">>
PlainN == <<"n", "@", "b">>
PlainB == <<"b", "@", "b">>

EmailValues ==
    {Str(e) : e \in {MixedF, PaddedF, PlainF, PlainH, MixedG, PlainN, PlainB,
                     <<"f", "b">>, <<" ">>}}
    \cup {Absent, Num(5)}

\* every email with a name and a password, and the payloads that lack a field
\* or hold a null phone
CreatePayloads ==
    [name : {Str(<<" ", "A">>)}, email : EmailValues, phone : {Str(<<"7">>)},
     password : {Str(<<"1">>)}]
    \cup [name : {Str(<<"A">>), Absent},
          email : {Str(MixedF), Absent},
          phone : {Absent, Null},
          password : {Str(<<"1">>), Str(<<>>), Absent}]

LoginPayloads ==
    [email : EmailValues, password : {Str(<<"1">>), Str(<<"2">>)}]
    \cup [email : {Str(MixedF), Str(<<>>)}, password : {Str(<<>>), Absent}]

\* the logins the cart runs use: customer A, the user without a role, a wrong
\* password and a missing one
CartLogins ==
    [email : {Str(MixedG), Str(PlainN)}, password : {Str(<<"1">>), Str(<<"2">>), Absent}]

MaxPage == 4        \* limit and offset requests range over -1..MaxPage

\* every limit with every offset, and the pages of each category and search
ListPayloads ==
    [limit : {Num(k) : k \in -1..MaxPage}
             \cup {Num(MaxLimit), Num(MaxLimit + 1), Absent, Null,
                   Str(<<"2">>), Str(<<"x">>)},
     offset : {Num(k) : k \in -1..MaxPage} \cup {Absent, Str(<<" ", "3">>), Str(<<"x">>)},
     category_id : {Absent},
     search : {Absent}]
    \cup [limit : {Num(k) : k \in 1..MaxPage} \cup {Absent},
          offset : {Num(0), Num(1)},
          category_id : {Absent, Num(0), Num(2), Str(<<"x">>)},
          search : {Absent, Str(<<"g">>), Num(5)}]

\* requests that pass every check, requests without a usable product, and
\* requests without a usable quantity
AddPayloads ==
    [product_id : {Num(1), Num(2)}, quantity : {Num(1), Num(2)}]
    \cup {[product_id |-> Str(<<"1">>), quantity |-> Absent],
          [product_id |-> Num(2), quantity |-> Str(<<" ", "2">>)]}
    \cup [product_id : {Num(k) : k \in {0, 3, 4, 9}} \cup {Absent, Null, Str(<<"x">>)},
          quantity : {Num(1)}]
    \cup [product_id : {Num(1)},
          quantity : {Num(0), Num(-1), Null, Str(<<"x">>)}]

-----------------------------------------------------------------------------
(* Specifications                                                          *)

\* the sale.order rows the store may hold before the first request: none, a
\* draft order of customer A, a confirmed order of A, two draft orders of A
\* written at different times, and two written at the same time
SeedOrders ==
    { {},
      {[id |-> 1, partner_id |-> 2, state |-> "draft", write_date |-> 1]},
      {[id |-> 1, partner_id |-> 2, state |-> "sale", write_date |-> 1]},
      {[id |-> 1, partner_id |-> 2, state |-> "draft", write_date |-> 2],
       [id |-> 2, partner_id |-> 2, state |-> "draft", write_date |-> 1]},
      {[id |-> 1, partner_id |-> 2, state |-> "draft", write_date |-> 1],
       [id |-> 2, partner_id |-> 2, state |-> "draft", write_date |-> 1]} }

NoResponse == [op |-> "none", status |-> "none", message |-> ""]

Init ==
    /\ orders \in SeedOrders
    /\ partners = SeedPartners
    /\ users = SeedUsers
    /\ lines = {}
    /\ session = [s \in Sessions |-> NoUid]
    /\ resp = NoResponse
    /\ hist = [signups |-> {}, cart_ids |-> {}, added |-> [k \in {} |-> 0]]
    /\ task = [w \in Workers |-> Idle]

\* a store without orders, for the handlers that never read them
InitNoOrders == Init /\ orders = {}

\* registration and login
AccountNext ==
    \/ \E data \in CreatePayloads, fail \in Failures :
           create_customer(data, fail)
    \/ \E sid \in Sessions, data \in LoginPayloads, raises \in BOOLEAN, token \in Tokens :
           customer_login(sid, data, raises, token)

SpecAccount == InitNoOrders /\ [][AccountNext]_vars

\* the catalogue
CatalogNext ==
    \E data \in ListPayloads, raises \in BOOLEAN : list_products(data, raises)

SpecCatalog == InitNoOrders /\ [][CatalogNext]_vars

\* the cart, one request at a time
Next ==
    \/ \E sid \in Sessions, data \in CartLogins :
           customer_login(sid, data, TRUE, "t1")
    \/ \E sid \in Sessions, data \in AddPayloads : add_to_cart(sid, data)
    \/ \E sid \in Sessions : view_cart(sid)

Spec == Init /\ [][Next]_vars

\* a store that holds no order, or one draft order of customer A
InitConc == Init /\ Cardinality(orders) <= 1 /\ \A o \in orders : o.state = "draft"

\* the requests the interleaved runs use: the two logins that authenticate the
\* session, the adds that pass every check and one that does not
ConcLogins == [email : {Str(MixedG), Str(PlainN)}, password : {Str(<<"1">>)}]

ConcPayloads ==
    [product_id : {Num(1), Num(2)}, quantity : {Num(1), Num(2)}]
    \cup {[product_id |-> Num(3), quantity |-> Num(1)]}

\* the cart, with the add_to_cart requests of two workers interleaved
ConcNext ==
    \/ \E sid \in Sessions, data \in ConcLogins :
           customer_login(sid, data, TRUE, "t1")
    \/ \E w \in Workers, sid \in Sessions, data \in ConcPayloads : AddBegin(w, sid, data)
    \/ \E w \in Workers : AddSearchCart(w)
    \/ \E w \in Workers : AddCreateCart(w)
    \/ \E w \in Workers : AddFilterLines(w)
    \/ \E w \in Workers, touch \in BOOLEAN : AddUpdateLine(w, touch)
    \/ \E w \in Workers, touch \in BOOLEAN : AddInsertLine(w, touch)

SpecConc == InitConc /\ [][ConcNext]_vars

-----------------------------------------------------------------------------
(* Properties                                                              *)

\* the normalization the specification states: trimmed, then lower-cased
Trimmed(e) == lower(strip(e))

IsText(v) == v.t = "str" /\ v.s # <<>>

\* C7: once a registration with an email has succeeded, every later
\* create_customer whose name, email and password are given and whose email
\* normalizes to the same text answers "error" with a message containing
\* "already exists", and creates no partner and no user.
C7_DuplicateRegistrationRejected ==
    [][(/\ resp'.op = "create"
        /\ IsText(resp'.request.email)
        /\ IsText(resp'.request.password)
        /\ IsText(resp'.request.name)
        /\ \E r \in hist.signups : Trimmed(r.email) = Trimmed(resp'.request.email.s))
       => (/\ resp'.status = "error"
           /\ resp'.message \in {"Email already exists",
                                 "User with this email already exists"}
           /\ partners' = partners
           /\ users' = users)]_vars

\* C7 witness: an email was registered as "F@b" and a second registration
\* with another spelling of it was answered "Email already exists"
C7_Witness ==
    /\ resp.op = "create"
    /\ resp.message = "Email already exists"
    /\ IsText(resp.request.email)
    /\ \E r \in hist.signups :
           /\ r.email # resp.request.email.s
           /\ Trimmed(r.email) = Trimmed(resp.request.email.s)

\* C8: normalization is idempotent on every email requested, and a login
\* whose email normalizes to that of a successful registration, with the
\* password registered, succeeds and returns the customer_id and the user_id
\* the registration returned.
C8_LoginFindsRegisteredIdentity ==
    /\ \A v \in EmailValues : v.t = "str" => Trimmed(Trimmed(v.s)) = Trimmed(v.s)
    /\ (resp.op = "login" /\ IsText(resp.request.email) /\ IsText(resp.request.password))
       => \A r \in hist.signups :
              (/\ Trimmed(r.email) = Trimmed(resp.request.email.s)
               /\ r.password = resp.request.password.s)
              => (/\ resp.status = "success"
                  /\ resp.customer_id = r.customer_id
                  /\ resp.user_id = r.user_id)

\* C8 witness: a customer registered with one spelling of the email has
\* logged in with another
C8_Witness ==
    /\ resp.op = "login"
    /\ resp.status = "success"
    /\ \E r \in hist.signups :
           /\ r.email # resp.request.email.s
           /\ Trimmed(r.email) = Trimmed(resp.request.email.s)
           /\ resp.user_id = r.user_id

\* the products a catalogue request matches, from the request alone
Matching(request) ==
    {p \in Products :
        /\ p.sale_ok /\ p.active
        /\ (request.category_id = Num(2) => p.categ_id = 2)
        /\ (request.search = Str(<<"g">>) =>
                (ilike(p.name, <<"g">>) \/ ilike(p.default_code, <<"g">>)))}

\* C9: in every successful list_products response total_count is the number
\* of products matching the request's filter and has_more is true exactly
\* when offset + limit < total_count; with offset = 0 and limit =
\* total_count it is false.
C9_HasMore ==
    (resp.op = "list" /\ resp.status = "success")
    => (/\ resp.total_count = Cardinality(Matching(resp.request))
        /\ resp.has_more <=> (resp.offset + resp.limit < resp.total_count)
        /\ (resp.offset = 0 /\ resp.limit = resp.total_count) => ~resp.has_more)

\* C9 witness: a page that ends exactly at the last matching product
C9_Witness ==
    /\ resp.op = "list"
    /\ resp.status = "success"
    /\ resp.total_count > 0
    /\ resp.offset = 0
    /\ resp.limit = resp.total_count
    /\ ~resp.has_more

\* limits and offsets that int() rejects
Unparsable == {Null, Str(<<"x">>)}

\* C10: a successful list_products response echoes a limit of at most 100
\* (100 for a request above 100, the requested integer otherwise, 20 when
\* omitted) and an offset of at least 0 (0 for a negative request, the
\* requested integer otherwise, 0 when omitted); a limit or offset that is
\* no integer is answered "error".
C10_LimitAndOffsetClamped ==
    resp.op = "list" =>
        LET lim == resp.request.limit
            off == resp.request.offset
        IN  /\ (lim \in Unparsable \/ off \in Unparsable) => resp.status = "error"
            /\ resp.status = "success" =>
                   /\ resp.limit <= 100
                   /\ resp.offset >= 0
                   /\ lim.t = "int" => resp.limit = (IF lim.n > 100 THEN 100 ELSE lim.n)
                   /\ lim = Absent => resp.limit = 20
                   /\ off.t = "int" => resp.offset = (IF off.n < 0 THEN 0 ELSE off.n)
                   /\ off = Absent => resp.offset = 0

\* C10 witness: a request for 101 products from offset -1 was answered with
\* limit 100 and offset 0
C10_Witness ==
    /\ resp.op = "list"
    /\ resp.status = "success"
    /\ resp.request.limit = Num(101)
    /\ resp.request.offset = Num(-1)
    /\ resp.limit = 100
    /\ resp.offset = 0


\* the draft orders of a customer
Drafts(ords, partner_id) == {o \in ords : o.partner_id = partner_id /\ o.state = "draft"}

\* the lines of a customer's orders for a product
LinesOf(partner_id, product_id) ==
    {l \in lines : /\ l.product_id = product_id
                   /\ \E o \in orders : o.id = l.order_id /\ o.partner_id = partner_id}

\* the cart ids successful adds returned to a customer
CartIds(h, partner_id) == {c[2] : c \in {x \in h.cart_ids : x[1] = partner_id}}

PartnerIds == {p.id : p \in partners}

\* C1: for a customer with one cart, whose lines all come from successful
\* add_to_cart calls made one at a time, every product added has exactly one
\* line, and its quantity is the sum of the quantities added for it.
C1_AddsAccumulate ==
    \A k \in DOMAIN hist.added :
        Cardinality(Drafts(orders, k[1])) <= 1
        => (/\ Cardinality(LinesOf(k[1], k[2])) = 1
            /\ \A l \in LinesOf(k[1], k[2]) : l.qty = hist.added[k])

\* C1 witness: a line holds 3, more than one request adds: the sum of two adds
C1_Witness ==
    /\ resp.op = "add"
    /\ resp.status = "success"
    /\ \E k \in DOMAIN hist.added :
           /\ Cardinality(Drafts(orders, k[1])) <= 1
           /\ hist.added[k] > 2
           /\ \E l \in LinesOf(k[1], k[2]) : l.qty = hist.added[k]

\* C2: no cart holds two lines for the same product, also when the
\* add_to_cart requests of one customer interleave.
C2_OneLinePerProduct ==
    \A l1 \in lines : \A l2 \in lines :
        (l1.order_id = l2.order_id /\ l1.product_id = l2.product_id) => l1 = l2

\* C3: with requests made one at a time, a customer who has at most one draft
\* order has at most one after any request, and every successful add has
\* returned the id of that one draft order.
C3_OneCartPerCustomer ==
    [][\A p \in PartnerIds :
           Cardinality(Drafts(orders, p)) <= 1
           => (/\ Cardinality(Drafts(orders', p)) <= 1
               /\ CartIds(hist', p) \subseteq {o.id : o \in Drafts(orders', p)})]_vars

\* C3 witness: a customer's only draft order took two adds or more
C3_Witness ==
    /\ resp.op = "add"
    /\ resp.status = "success"
    /\ \E o \in orders :
           /\ Drafts(orders, o.partner_id) = {o}
           /\ CartIds(hist, o.partner_id) = {o.id}
           /\ resp.cart_id = o.id
           /\ \/ resp.cart_items_count > 1
              \/ \E l \in lines : l.order_id = o.id /\ l.qty > 2

\* C4: each request creates a draft order only after its own search found
\* none, so interleaved requests leave a customer with as many draft orders as
\* there are workers at most; two are reached (C4_Witness) when both workers
\* search before either creates.
C4_DraftsOnlyFromOverlappingRequests ==
    \A p \in PartnerIds :
        /\ Cardinality(Drafts(orders, p)) <= Cardinality(Workers)
        /\ \A w \in Workers :
               (task[w].pc = "create" /\ task[w].partner_id = p)
               => Cardinality(Drafts(orders, p)) < Cardinality(Workers)

\* C4 witness: a customer has two draft orders
C4_Witness ==
    \E p \in PartnerIds : Cardinality(Drafts(orders, p)) = 2

Anonymous(sid) == session[sid] \in {NoUid, PublicUid}

\* C5: on an anonymous session every add_to_cart and every view_cart is
\* answered "error", "Authentication required", and leaves orders and lines
\* as they were.
C5_AnonymousCartRequestsRejected ==
    [][\A sid \in Sessions :
           (Anonymous(sid) /\ resp'.op \in {"add", "view"})
           => (/\ resp'.status = "error"
               /\ resp'.message = "Authentication required"
               /\ orders' = orders
               /\ lines' = lines)]_vars

\* C5 witness: an add_to_cart on an anonymous session was rejected
C5_Witness ==
    /\ Anonymous("s1")
    /\ resp.op = "add"
    /\ resp.status = "error"
    /\ resp.message = "Authentication required"

\* C6: view_cart leaves partners, users, orders and lines as they were, and
\* for an authenticated customer without a draft order it answers "success"
\* with a null cart.
C6_ViewCartReadsOnly ==
    [][resp'.op = "view"
       => (/\ <<partners, users, orders, lines>>' = <<partners, users, orders, lines>>
           /\ \A sid \in Sessions :
                  (~Anonymous(sid) /\ Drafts(orders, UserOf(session[sid]).partner_id) = {})
                  => (resp'.status = "success" /\ resp'.cart = Null))]_vars

\* C6 witness: an authenticated customer without a draft order viewed the
\* cart, was answered a null cart, and still has no draft order
C6_Witness ==
    /\ resp.op = "view"
    /\ resp.status = "success"
    /\ resp.cart = Null
    /\ ~Anonymous("s1")
    /\ Drafts(orders, UserOf(session["s1"]).partner_id) = {}

\* a field that data.get() finds missing or empty
Empty(v) == v \in {Absent, Null, Str(<<>>), Num(0)}

\* C11: a create_customer whose name, email or password is missing or empty
\* answers "error" naming the first of them in the order name, email,
\* password; one whose three fields are given and whose email, trimmed and
\* lower-cased, holds no "@" answers "Invalid email format"; both leave the
\* partners and the users as they were.
C11_InvalidRegistrationRejected ==
    [][resp'.op = "create"
       => LET d == resp'.request
              first == IF Empty(d.name) THEN "name"
                       ELSE IF Empty(d.email) THEN "email"
                       ELSE "password"
              missing == Empty(d.name) \/ Empty(d.email) \/ Empty(d.password)
          IN  /\ missing
                 => (/\ resp'.status = "error"
                     /\ resp'.message = "Missing required field: " \o first
                     /\ partners' = partners
                     /\ users' = users)
              /\ (/\ ~missing
                  /\ d.email.t = "str"
                  /\ \A i \in 1..Len(Trimmed(d.email.s)) : Trimmed(d.email.s)[i] # "@")
                 => (/\ resp'.status = "error"
                     /\ resp'.message = "Invalid email format"
                     /\ partners' = partners
                     /\ users' = users)]_vars

\* C11 witness: a registration with a name and neither email nor password was
\* answered with the email as the missing field
C11_Witness ==
    /\ resp.op = "create"
    /\ ~Empty(resp.request.name)
    /\ Empty(resp.request.email)
    /\ Empty(resp.request.password)
    /\ resp.message = "Missing required field: email"

\* the partners no user is linked to
Orphans(ps, us) == {p \in ps : \A u \in us : u.partner_id # p.id}

\* C12: a create_customer answered "error" creates no user and deletes no
\* partner, the partners it leaves behind have no user, and when it is the
\* user's create() that raised, the partner created for the request's email
\* is in the store, with no user linked to it.
C12_FailedRegistrationLeavesPartner ==
    [][(resp'.op = "create" /\ resp'.status = "error")
       => (/\ users' = users
           /\ partners \subseteq partners'
           /\ partners' \ partners \subseteq Orphans(partners', users')
           /\ resp'.message = "ValidationError: res.users"
              => \E p \in partners' \ partners :
                     p.email = Trimmed(resp'.request.email.s))]_vars

\* C12 witness: a registration was answered "error" and its partner is in
\* the store without a user
C12_Witness ==
    /\ resp.op = "create"
    /\ resp.status = "error"
    /\ resp.message \in {"Internal server error", "ValidationError: res.users"}
    /\ IsText(resp.request.email)
    /\ \E p \in Orphans(partners, users) \ SeedPartners :
           p.email = Trimmed(resp.request.email.s)

\* the users whose login and password a login request gives
Accepted(us, request) ==
    {u \in us : u.login = Trimmed(request.email.s) /\ u.password = request.password.s}

\* C13: a login with an email and a password that no user has is answered
\* with status "error" and "Invalid email or password" and nothing else,
\* whether the authenticator raised or returned no uid, and whether the email
\* is unknown or the password wrong.
C13_LoginFailuresLookAlike ==
    [][(/\ resp'.op = "login"
        /\ IsText(resp'.request.email)
        /\ IsText(resp'.request.password)
        /\ Accepted(users, resp'.request) = {})
       => resp' = [op |-> "login", request |-> resp'.request, status |-> "error",
                   message |-> "Invalid email or password"]]_vars

\* C13 witness: a login with the email of a user and a wrong password was
\* answered "Invalid email or password"
C13_Witness ==
    /\ resp.op = "login"
    /\ resp.message = "Invalid email or password"
    /\ IsText(resp.request.email)
    /\ \E u \in users : u.login = Trimmed(resp.request.email.s)
    /\ Accepted(users, resp.request) = {}

Roles == {"base.group_portal", "base.group_user"}

\* C14: a login answered "success" gave the login and the password of a user
\* who holds the portal or the internal role, and a login that gives the
\* login and password of a user who holds neither is answered "error" with
\* "Access denied" and neither session_token nor session_id.
C14_LoginNeedsRole ==
    (resp.op = "login" /\ IsText(resp.request.email) /\ IsText(resp.request.password))
    => (/\ resp.status = "success"
           => \E u \in Accepted(users, resp.request) :
                  u.groups \cap Roles # {} /\ resp.user_id = u.id
        /\ \A u \in Accepted(users, resp.request) :
               u.groups \cap Roles = {}
               => (/\ resp.status = "error"
                   /\ resp.message = "Access denied"
                   /\ DOMAIN resp \cap {"session_token", "session_id"} = {}))

\* C14 witness: the user without a role gave its password and was answered
\* "Access denied"
C14_Witness ==
    /\ resp.op = "login"
    /\ resp.message = "Access denied"
    /\ \E u \in Accepted(users, resp.request) : u.groups \cap Roles = {}

\* the messages of a request add_to_cart rejects for what it asks
Rejections ==
    {"Product ID is required", "Invalid product_id or quantity format",
     "Quantity must be greater than 0", "Product not found or not available for sale"}

\* C15: an add_to_cart rejected because the product_id is missing, the
\* product_id or the quantity is not a number, the quantity is not positive or
\* the product cannot be sold answers "error" and leaves every order and
\* every line as it was; no draft order appears for a customer without one.
C15_RejectedAddChangesNothing ==
    [][(resp'.op = "add" /\ resp'.message \in Rejections)
       => (/\ resp'.status = "error"
           /\ orders' = orders
           /\ lines' = lines)]_vars

\* C15 witness: a logged-in customer without a draft order asked for a
\* product that cannot be sold, and has no draft order
C15_Witness ==
    /\ resp.op = "add"
    /\ resp.message = "Product not found or not available for sale"
    /\ ~Anonymous("s1")
    /\ Drafts(orders, UserOf(session["s1"]).partner_id) = {}

\* a row without the columns a later write may change
OrderKey(o) == [id |-> o.id, partner_id |-> o.partner_id, state |-> o.state]
LineKey(l) == [id |-> l.id, order_id |-> l.order_id, product_id |-> l.product_id]

C18_FailedLoginLeavesSessionAnonymous ==
    [][\A s \in Sessions :
           (Anonymous(s) /\ resp'.op = "login" /\ resp'.status = "error")
           => \A uid \in RequestUids(s)' :
                  /\ \A data \in AddPayloads : AddError(uid, data) = "Authentication required"
                  /\ ViewOutcome(uid)' = {Err("view", "Authentication required")}]_vars

====
